---- MODULE Spec2Model ----
(***************************************************************************)
(* Model of dicom-mod (src/dicom-mod/main.py): the two pixel-array         *)
(* transforms fill_image and transfer_image, and the batch driver main.    *)
(*                                                                         *)
(* Strings are sequences of one-character strings, so that split(",") and  *)
(* int() are computed.  An ndarray is a record [shape, data] whose data    *)
(* maps 0-based index tuples to samples.                                   *)
(*                                                                         *)
(* --info, --verbose and --debug only print (or enter the debugger) and    *)
(* are left out; the entries of the input directory are readable DICOM     *)
(* datasets, with or without pixel data.                                   *)
(***************************************************************************)
EXTENDS Integers, Sequences, FiniteSets, TLC

(* ------------------------------ bounds --------------------------------- *)
\* frames, rows and columns of the buffers of the model
Frames == 2
Height == 3
Width == 3
\* rectangle corners range over -NegCoord..MaxCoord, extents over 0..MaxExtent
NegCoord == 1
MaxCoord == 2
MaxExtent == 2
\* number of entries of the input directory
NumFiles == 2

\* the channel axis of an RGB buffer
Channels == 3

(* --------------------------- python strings ---------------------------- *)
DigitChars == <<"0", "1", "2", "3", "4", "5", "6", "7", "8", "9">>

IsDigit(c) == \E k \in 1..10 : DigitChars[k] = c

DigitVal(c) == (CHOOSE k \in 1..10 : DigitChars[k] = c) - 1

IsSpace(c) == c \in {" ", "\t", "\n"}

\* str.strip(): leading and trailing whitespace removed
RECURSIVE LStrip(_)
LStrip(s) == IF s # <<>> /\ IsSpace(Head(s)) THEN LStrip(Tail(s)) ELSE s

RECURSIVE RStrip(_)
RStrip(s) ==
    IF s # <<>> /\ IsSpace(s[Len(s)]) THEN RStrip(SubSeq(s, 1, Len(s) - 1)) ELSE s

Strip(s) == RStrip(LStrip(s))

\* str.lower() on the letters the model's inputs use
LowerChar(c) ==
    CASE c = "Q" -> "q" [] c = "U" -> "u" [] c = "I" -> "i" [] c = "T" -> "t"
      [] c = "E" -> "e" [] c = "X" -> "x" [] c = "Y" -> "y" [] c = "N" -> "n"
      [] OTHER -> c

Lower(s) == [k \in 1..Len(s) |-> LowerChar(s[k])]

\* str.split(sep): the list of fields between separators
RECURSIVE SplitAcc(_, _, _)
SplitAcc(s, sep, cur) ==
    IF s = <<>> THEN <<cur>>
    ELSE IF Head(s) = sep THEN <<cur>> \o SplitAcc(Tail(s), sep, <<>>)
    ELSE SplitAcc(Tail(s), sep, Append(cur, Head(s)))

Split(s, sep) == SplitAcc(s, sep, <<>>)

\* value of a non-empty sequence of digits
RECURSIVE DigitsVal(_, _)
DigitsVal(s, acc) ==
    IF s = <<>> THEN acc ELSE DigitsVal(Tail(s), 10 * acc + DigitVal(Head(s)))

AllDigits(s) == s # <<>> /\ \A k \in 1..Len(s) : IsDigit(s[k])

\* int(str): surrounding whitespace ignored, optional sign, decimal digits;
\* anything else raises ValueError (ok = FALSE)
ParseInt(str) ==
    LET t == Strip(str)
        signed == t # <<>> /\ Head(t) \in {"-", "+"}
        body == IF signed THEN Tail(t) ELSE t
    IN  IF AllDigits(body)
        THEN [ok |-> TRUE,
              val |-> IF signed /\ Head(t) = "-" THEN 0 - DigitsVal(body, 0)
                      ELSE DigitsVal(body, 0)]
        ELSE [ok |-> FALSE, val |-> 0]

(* ------------------------------ ndarray -------------------------------- *)
RECURSIVE Indices(_)
Indices(shape) ==
    IF shape = <<>> THEN {<<>>}
    ELSE {<<i>> \o r : i \in 0..(shape[1] - 1), r \in Indices(Tail(shape))}

\* a[start:stop] on an axis of length n: negative bounds count from the end,
\* bounds are clamped to the axis, an empty range has len 0
SliceOf(start, stop, n) ==
    LET norm(v) == IF v < 0 THEN (IF v + n < 0 THEN 0 ELSE v + n)
                   ELSE (IF v > n THEN n ELSE v)
        lo == norm(start)
        hi == norm(stop)
    IN  [start |-> lo, len |-> IF hi > lo THEN hi - lo ELSE 0]

InSlice(i, sl) == sl.start <= i /\ i < sl.start + sl.len

\* shape of a[s0, s1]
SlicedShape(shape, s0, s1) == <<s0.len, s1.len>> \o SubSeq(shape, 3, Len(shape))

\* a[s0, s1] read as a value (the content at the time of the read)
GetItem2(a, s0, s1) ==
    LET sh == SlicedShape(a.shape, s0, s1)
    IN  [shape |-> sh,
         data |-> [i \in Indices(sh) |->
                     a.data[<<s0.start + i[1], s1.start + i[2]>>
                            \o SubSeq(i, 3, Len(i))]]]

\* numpy broadcasting of a value of shape vs into a target of shape ds
Broadcastable(vs, ds) ==
    /\ Len(vs) <= Len(ds)
    /\ \A j \in 1..Len(vs) :
          vs[j] = ds[Len(ds) - Len(vs) + j] \/ vs[j] = 1

BroadcastIndex(vs, ds, i) ==
    [j \in 1..Len(vs) |->
        IF vs[j] = 1 THEN 0 ELSE i[Len(ds) - Len(vs) + j]]

\* a[s0, s1] = val.  The right-hand side is read in full before the write
\* (numpy copies an overlapping source); shapes that do not broadcast raise
\* ValueError and leave a untouched
SetItem2(a, s0, s1, val) ==
    LET sh == SlicedShape(a.shape, s0, s1)
    IN  IF ~Broadcastable(val.shape, sh)
        THEN [exc |-> "ValueError", array |-> a]
        ELSE [exc |-> "none",
              array |->
                [shape |-> a.shape,
                 data |-> [i \in Indices(a.shape) |->
                    IF InSlice(i[1], s0) /\ InSlice(i[2], s1)
                    THEN val.data[BroadcastIndex(val.shape, sh,
                            <<i[1] - s0.start, i[2] - s1.start>>
                            \o SubSeq(i, 3, Len(i)))]
                    ELSE a.data[i]]]]

\* a[f]
GetFrame(a, f) ==
    [shape |-> Tail(a.shape),
     data |-> [i \in Indices(Tail(a.shape)) |-> a.data[<<f>> \o i]]]

\* a[f] seen as a view: writing sub through it changes frame f of a only
SetFrame(a, f, sub) ==
    [shape |-> a.shape,
     data |-> [i \in Indices(a.shape) |->
                 IF i[1] = f THEN sub.data[Tail(i)] ELSE a.data[i]]]

\* the python list [r, g, b] as an array of shape (3,)
ListArray(l) == [shape |-> <<Len(l)>>, data |-> [i \in Indices(<<Len(l)>>) |-> l[i[1] + 1]]]

(* ----------------------------- transforms ------------------------------ *)
\* fill_image with x and y exchanged in the subscript:
\* array[x : x + width, y : y + height] = [r, g, b]
fill_image_xy(array, rectangle, color) ==
    LET rt == Split(rectangle, ",")
        ct == Split(color, ",")
    IN  IF Len(rt) # 4 \/ Len(ct) # 3
        THEN [exc |-> "ValueError", array |-> array]
        ELSE
        LET p == [k \in 1..4 |-> ParseInt(rt[k])]
            q == [k \in 1..3 |-> ParseInt(ct[k])]
        IN  IF (\E k \in 1..4 : ~p[k].ok) \/ (\E k \in 1..3 : ~q[k].ok)
            THEN [exc |-> "ValueError", array |-> array]
            ELSE SetItem2(array,
                          SliceOf(p[1].val, p[1].val + p[3].val, array.shape[1]),
                          SliceOf(p[2].val, p[2].val + p[4].val, array.shape[2]),
                          ListArray(<<q[1].val, q[2].val, q[3].val>>))

\* fill_image(array, rectangle, color)
fill_image(array, rectangle, color) ==
    LET rt == Split(rectangle, ",")
        ct == Split(color, ",")
    IN  IF Len(rt) # 4 \/ Len(ct) # 3
        THEN [exc |-> "ValueError", array |-> array]
        ELSE
        LET p == [k \in 1..4 |-> ParseInt(rt[k])]
            q == [k \in 1..3 |-> ParseInt(ct[k])]
        IN  IF (\E k \in 1..4 : ~p[k].ok) \/ (\E k \in 1..3 : ~q[k].ok)
            THEN [exc |-> "ValueError", array |-> array]
            ELSE
            LET x == p[1].val
                y == p[2].val
                width == p[3].val
                height == p[4].val
            IN  SetItem2(array,
                         SliceOf(y, y + height, array.shape[1]),
                         SliceOf(x, x + width, array.shape[2]),
                         ListArray(<<q[1].val, q[2].val, q[3].val>>))

\* the assignment with its two sides exchanged: the destination block is
\* copied onto the source block
TransferBlock_reversed(a, source_x, source_y, width, height, dest_x, dest_y) ==
    SetItem2(a,
             SliceOf(source_y, source_y + height, a.shape[1]),
             SliceOf(source_x, source_x + width, a.shape[2]),
             GetItem2(a,
                      SliceOf(dest_y, dest_y + height, a.shape[1]),
                      SliceOf(dest_x, dest_x + width, a.shape[2])))

\* the copy done cell by cell in row-major order on the buffer itself, the
\* k-th cell of the destination read from the buffer as the cells before it
\* left it
CopyCells(a, s0, s1, d0, d1) ==
    LET RECURSIVE Step(_, _)
        Step(b, k) ==
            IF k >= d0.len * d1.len THEN b
            ELSE LET r == k \div d1.len
                     c == k % d1.len
                 IN  Step([shape |-> b.shape,
                           data |-> [i \in Indices(b.shape) |->
                              IF i[1] = d0.start + r /\ i[2] = d1.start + c
                              THEN b.data[<<s0.start + r, s1.start + c>>
                                          \o SubSeq(i, 3, Len(i))]
                              ELSE b.data[i]]],
                          k + 1)
    IN  Step(a, 0)

TransferBlock_inplace(a, source_x, source_y, width, height, dest_x, dest_y) ==
    LET s0 == SliceOf(source_y, source_y + height, a.shape[1])
        s1 == SliceOf(source_x, source_x + width, a.shape[2])
        d0 == SliceOf(dest_y, dest_y + height, a.shape[1])
        d1 == SliceOf(dest_x, dest_x + width, a.shape[2])
    IN  IF s0.len = d0.len /\ s1.len = d1.len
        THEN [exc |-> "none", array |-> CopyCells(a, s0, s1, d0, d1)]
        ELSE SetItem2(a, d0, d1, GetItem2(a, s0, s1))

\* array[dest rows, dest cols] = array[source rows, source cols] on one
\* buffer whose first two axes are rows and columns
TransferBlock(a, source_x, source_y, width, height, dest_x, dest_y) ==
    SetItem2(a,
             SliceOf(dest_y, dest_y + height, a.shape[1]),
             SliceOf(dest_x, dest_x + width, a.shape[2]),
             GetItem2(a,
                      SliceOf(source_y, source_y + height, a.shape[1]),
                      SliceOf(source_x, source_x + width, a.shape[2])))

\* the loop over the frames of video data, from frame on
RECURSIVE TransferFrames(_, _, _, _, _, _, _, _)
TransferFrames(a, frame, source_x, source_y, width, height, dest_x, dest_y) ==
    IF frame >= a.shape[1] THEN [exc |-> "none", array |-> a]
    ELSE
    LET r == TransferBlock(GetFrame(a, frame), source_x, source_y,
                           width, height, dest_x, dest_y)
    IN  IF r.exc # "none" THEN [exc |-> r.exc, array |-> a]
        ELSE TransferFrames(SetFrame(a, frame, r.array), frame + 1,
                            source_x, source_y, width, height, dest_x, dest_y)

\* transfer_image(array, destination, source)
transfer_image(array, destination, source) ==
    LET st == Split(source, ",")
        dt == Split(destination, ",")
    IN  IF Len(st) # 4 \/ Len(dt) # 2
        THEN [exc |-> "ValueError", array |-> array]
        ELSE
        LET p == [k \in 1..4 |-> ParseInt(st[k])]
            q == [k \in 1..2 |-> ParseInt(dt[k])]
        IN  IF (\E k \in 1..4 : ~p[k].ok) \/ (\E k \in 1..2 : ~q[k].ok)
            THEN [exc |-> "ValueError", array |-> array]
            ELSE IF Len(array.shape) = 4
            THEN TransferFrames(array, 0, p[1].val, p[2].val, p[3].val,
                                p[4].val, q[1].val, q[2].val)
            ELSE TransferBlock(array, p[1].val, p[2].val, p[3].val,
                               p[4].val, q[1].val, q[2].val)

(* ------------------------------- inputs -------------------------------- *)
\* decimal text of an integer
RECURSIVE NatStr(_)
NatStr(n) ==
    IF n < 10 THEN <<DigitChars[n + 1]>>
    ELSE NatStr(n \div 10) \o <<DigitChars[(n % 10) + 1]>>

IntStr(n) == IF n < 0 THEN <<"-">> \o NatStr(0 - n) ELSE NatStr(n)

\* "a,b,c" for the integers <<a, b, c>>
RECURSIVE CommaList(_)
CommaList(ns) ==
    IF Len(ns) = 1 THEN IntStr(ns[1])
    ELSE IntStr(ns[1]) \o <<",">> \o CommaList(Tail(ns))

\* row-major position of index i in an array of shape sh
RECURSIVE Linear(_, _, _)
Linear(i, sh, acc) ==
    IF i = <<>> THEN acc ELSE Linear(Tail(i), Tail(sh), acc * sh[1] + i[1])

\* a decoded buffer: every sample differs from every other one
NewArray(shape) ==
    [shape |-> shape,
     data |-> [i \in Indices(shape) |-> 100 + Linear(i, shape, 0)]]

ImageShape == <<Height, Width, Channels>>
VideoShape == <<Frames, Height, Width, Channels>>

Coords == (0 - NegCoord)..MaxCoord
Extents == 0..MaxExtent
Colors == {<<23, 34, 61>>, <<0, 255, 7>>}

\* argument strings that are not four (two) integers
Malformed == {<<"1", ",", "0", ",", "2">>, <<"a", ",", "0", ",", "1", ",", "1">>}

(* ------------------------------- state --------------------------------- *)
VARIABLES
    func,         \* the transform being called on its own
    array,        \* its array argument, changed in place
    before,       \* the array as it was when the call started
    rectangle,    \* fill_image's rectangle argument
    color,        \* fill_image's color argument
    source,       \* transfer_image's source argument
    destination,  \* transfer_image's destination argument
    given,        \* the integers the argument strings were written from
    outcome,      \* "pending", "returned" or "raised"
    args,         \* the parsed command line
    files,        \* the entries of the input directory, in iteration order
    pc,           \* position of main
    idx,          \* the entry the loop of main is at
    image,        \* main's image
    dataset,      \* main's dataset
    events,       \* what was done for each entry, in order
    shown,        \* what show_image displayed for each entry
    jpgs,         \* the jpg files in the output directory
    written,      \* the dicom files in the output directory
    out_dir_exists, \* whether the output directory exists
    command,      \* main's command, the text entered at the last display
    ret           \* "running", main's return value, or the exception raised

tvars == <<func, array, before, rectangle, color, source, destination, given,
           outcome>>

mvars == <<args, files, pc, idx, image, dataset, events, shown, jpgs, written,
           out_dir_exists, command, ret>>

vars == <<func, array, before, rectangle, color, source, destination, given,
          outcome, args, files, pc, idx, image, dataset, events, shown, jpgs,
          written, out_dir_exists, command, ret>>

\* the value of a python name bound to None
None == [shape |-> <<>>, data |-> <<>>]

(* ----------------------- the transforms on their own ------------------- *)
NoArgs ==
    [input |-> <<>>, output |-> FALSE, show |-> FALSE, institution |-> FALSE,
     jpg |-> FALSE, transfer |-> FALSE, source |-> <<>>, destination |-> <<>>,
     transfer2 |-> FALSE, source2 |-> <<>>, destination2 |-> <<>>,
     fill |-> FALSE, color |-> <<>>, rect |-> <<>>,
     fill2 |-> FALSE, color2 |-> <<>>, rect2 |-> <<>>]

MainIdle ==
    /\ args = NoArgs
    /\ files = <<>>
    /\ pc = "idle"
    /\ idx = 0
    /\ image = None
    /\ dataset = [InstitutionName |-> "original", PixelData |-> <<>>]
    /\ events = <<>>
    /\ shown = <<>>
    /\ jpgs = <<>>
    /\ written = <<>>
    /\ out_dir_exists = FALSE
    /\ command = <<>>
    /\ ret = "running"

InitTransform ==
    /\ MainIdle
    /\ array \in {NewArray(ImageShape), NewArray(VideoShape)}
    /\ before = array
    /\ outcome = "pending"
    /\ \/ /\ func = "fill_image"
          /\ source = <<>>
          /\ destination = <<>>
          /\ \/ \E x \in Coords, y \in Coords, w \in Extents, h \in Extents,
                   c \in Colors :
                   /\ given = <<x, y, w, h>> \o c
                   /\ rectangle = CommaList(<<x, y, w, h>>)
                   /\ color = CommaList(c)
             \/ /\ given = <<>>
                /\ rectangle \in Malformed
                /\ color = CommaList(<<23, 34, 61>>)
       \/ /\ func = "transfer_image"
          /\ rectangle = <<>>
          /\ color = <<>>
          /\ \/ \E sx \in Coords, sy \in Coords, w \in Extents, h \in Extents,
                   dx \in Coords, dy \in Coords :
                   /\ given = <<sx, sy, w, h, dx, dy>>
                   /\ source = CommaList(<<sx, sy, w, h>>)
                   /\ destination = CommaList(<<dx, dy>>)
             \/ /\ given = <<>>
                /\ source \in Malformed
                /\ destination = CommaList(<<0, 0>>)

\* the result of a call: the array is changed in place, an exception other
\* than AttributeError passes through the debug_verbose wrapper
Finish(r) ==
    /\ array' = r.array
    /\ outcome' = IF r.exc = "none" THEN "returned" ELSE "raised"
    /\ UNCHANGED <<func, before, rectangle, color, source, destination, given>>
    /\ UNCHANGED mvars

CallFill ==
    /\ outcome = "pending"
    /\ func = "fill_image"
    /\ Finish(fill_image(array, rectangle, color))

CallTransfer ==
    /\ outcome = "pending"
    /\ func = "transfer_image"
    /\ Finish(transfer_image(array, destination, source))

NextTransform == CallFill \/ CallTransfer

SpecTransform == InitTransform /\ [][NextTransform]_vars

(* ------------------- properties of the transforms ---------------------- *)
IsVideo(a) == Len(a.shape) = 4
FrameSet(a) == IF IsVideo(a) THEN 0..(a.shape[1] - 1) ELSE {0}
RowsOf(a) == IF IsVideo(a) THEN a.shape[2] ELSE a.shape[1]
ColsOf(a) == IF IsVideo(a) THEN a.shape[3] ELSE a.shape[2]

\* the pixel (three samples) of frame f at row r, column c
Pixel(a, f, r, c) ==
    [ch \in 1..Channels |->
        IF IsVideo(a) THEN a.data[<<f, r, c, ch - 1>>]
        ELSE a.data[<<r, c, ch - 1>>]]

\* the rectangle (x, y, w, h) lies within a buffer of the shape of a
InBounds(a, x, y, w, h) ==
    /\ x >= 0 /\ y >= 0 /\ w >= 0 /\ h >= 0
    /\ x + w <= ColsOf(a)
    /\ y + h <= RowsOf(a)

\* the rectangle reaches past the width or the height of the buffer
PastBuffer(a, x, y, w, h) ==
    /\ x >= 0 /\ y >= 0 /\ w > 0 /\ h > 0
    /\ (x + w > ColsOf(a) \/ y + h > RowsOf(a))

InRect(r, c, x, y, w, h) == y <= r /\ r < y + h /\ x <= c /\ c < x + w

Overlap(x1, y1, x2, y2, w, h) ==
    /\ w > 0 /\ h > 0
    /\ x1 < x2 + w /\ x2 < x1 + w
    /\ y1 < y2 + h /\ y2 < y1 + h

FillCalled == func = "fill_image" /\ outcome # "pending" /\ given # <<>>
TransferCalled == func = "transfer_image" /\ outcome # "pending" /\ given # <<>>

FillColor == SubSeq(given, 5, 7)

\* every pixel of frame f inside the rectangle has the color, every other
\* pixel of the frame is as before the call
FrameFilled(f) ==
    \A r \in 0..(RowsOf(before) - 1), c \in 0..(ColsOf(before) - 1) :
        Pixel(array, f, r, c) =
            IF InRect(r, c, given[1], given[2], given[3], given[4])
            THEN FillColor ELSE Pixel(before, f, r, c)

\* C1: on a single-frame buffer [height, width, 3], fill_image with a
\* rectangle within the buffer sets exactly the pixels of rows y..y+h-1,
\* columns x..x+w-1 to (r, g, b) and leaves every other pixel as it was.
C1_FillSingleFrame ==
    (FillCalled /\ ~IsVideo(before)
        /\ InBounds(before, given[1], given[2], given[3], given[4]))
    => /\ outcome = "returned"
       /\ array.shape = before.shape
       /\ FrameFilled(0)

C1_Witness ==
    /\ FillCalled /\ ~IsVideo(before) /\ outcome = "returned"
    /\ given[1] = 1 /\ given[2] = 0 /\ given[3] = 2 /\ given[4] = 2
    /\ Pixel(array, 0, 1, 2) = FillColor
    /\ Pixel(array, 0, 1, 0) = Pixel(before, 0, 1, 0)
    /\ array # before

\* C2: on a multi-frame buffer [frames, height, width, 3], either transform
\* with rectangles within the buffer gives in every frame what it gives on
\* that frame alone as a single-frame buffer; fill_image overwrites the
\* rectangle in all frames and nothing else.
C2_MultiFrameEquivalence ==
    /\ (FillCalled /\ IsVideo(before)
          /\ InBounds(before, given[1], given[2], given[3], given[4]))
       => /\ outcome = "returned"
          /\ \A f \in FrameSet(before) :
                /\ GetFrame(array, f)
                     = fill_image(GetFrame(before, f), rectangle, color).array
                /\ FrameFilled(f)
    /\ (TransferCalled /\ IsVideo(before)
          /\ InBounds(before, given[1], given[2], given[3], given[4])
          /\ InBounds(before, given[5], given[6], given[3], given[4]))
       => /\ outcome = "returned"
          /\ \A f \in FrameSet(before) :
                GetFrame(array, f)
                  = transfer_image(GetFrame(before, f), destination, source).array

\* C3: with source and destination rectangles within the buffer that do not
\* overlap, transfer_image makes the destination block equal to the source
\* block as it was, and changes no pixel outside the destination rectangle
\* (so the source block stays as it was).
C3_TransferDisjoint ==
    (TransferCalled
        /\ InBounds(before, given[1], given[2], given[3], given[4])
        /\ InBounds(before, given[5], given[6], given[3], given[4])
        /\ ~Overlap(given[1], given[2], given[5], given[6], given[3], given[4]))
    => /\ outcome = "returned"
       /\ array.shape = before.shape
       /\ \A f \in FrameSet(before) :
           \A r \in 0..(RowsOf(before) - 1), c \in 0..(ColsOf(before) - 1) :
             /\ InRect(r, c, given[5], given[6], given[3], given[4])
                => Pixel(array, f, r, c)
                     = Pixel(before, f, r - given[6] + given[2],
                             c - given[5] + given[1])
             /\ ~InRect(r, c, given[5], given[6], given[3], given[4])
                => Pixel(array, f, r, c) = Pixel(before, f, r, c)
             /\ InRect(r, c, given[1], given[2], given[3], given[4])
                => Pixel(array, f, r, c) = Pixel(before, f, r, c)

C3_Witness ==
    /\ TransferCalled /\ outcome = "returned"
    /\ given = <<2, 1, 1, 2, 0, 0>>
    /\ \A f \in FrameSet(before) :
          /\ Pixel(array, f, 0, 0) = Pixel(before, f, 1, 2)
          /\ Pixel(array, f, 1, 0) = Pixel(before, f, 2, 2)
          /\ Pixel(array, f, 1, 2) = Pixel(before, f, 1, 2)
    /\ array # before

\* C4: with overlapping source and destination rectangles within the
\* buffer, the destination block after transfer_image equals the source
\* block as it was before the call, for every relative offset.
C4_TransferOverlap ==
    (TransferCalled
        /\ InBounds(before, given[1], given[2], given[3], given[4])
        /\ InBounds(before, given[5], given[6], given[3], given[4])
        /\ Overlap(given[1], given[2], given[5], given[6], given[3], given[4]))
    => /\ outcome = "returned"
       /\ \A f \in FrameSet(before) :
           \A r \in 0..(RowsOf(before) - 1), c \in 0..(ColsOf(before) - 1) :
             InRect(r, c, given[5], given[6], given[3], given[4])
                => Pixel(array, f, r, c)
                     = Pixel(before, f, r - given[6] + given[2],
                             c - given[5] + given[1])

\* source block (0,0,2,2) moved one column right and one row down: the
\* destination pixel (1,1) is also a source pixel and was overwritten
C4_Witness ==
    /\ TransferCalled /\ outcome = "returned"
    /\ given = <<0, 0, 2, 2, 1, 1>>
    /\ \A f \in FrameSet(before) :
          /\ Pixel(array, f, 2, 2) = Pixel(before, f, 1, 1)
          /\ Pixel(array, f, 1, 1) = Pixel(before, f, 0, 0)
          /\ Pixel(array, f, 1, 1) # Pixel(before, f, 1, 1)

\* C5: a fill rectangle, transfer source rectangle or transfer destination
\* rectangle that reaches past the buffer's width or height makes the call
\* raise; the buffer is never changed on the part within bounds only.
C5_OutOfBoundsRaises ==
    /\ (FillCalled /\ PastBuffer(before, given[1], given[2], given[3], given[4]))
       => (outcome = "raised" /\ array = before)
    /\ (TransferCalled
          /\ (\/ PastBuffer(before, given[1], given[2], given[3], given[4])
              \/ PastBuffer(before, given[5], given[6], given[3], given[4])))
       => (outcome = "raised" /\ array = before)

(* =========================== the batch driver ========================== *)
\* bytes of an array in C order: ndarray.tobytes()
RECURSIVE Unravel(_, _)
Unravel(k, shape) ==
    IF shape = <<>> THEN <<>>
    ELSE Append(Unravel(k \div shape[Len(shape)],
                        SubSeq(shape, 1, Len(shape) - 1)),
                k % shape[Len(shape)])

Size(shape) == Cardinality(Indices(shape))

tobytes(a) == [k \in 1..Size(a.shape) |-> a.data[Unravel(k - 1, a.shape)]]

\* pydicom.encaps.encapsulate(frames): one fragment per frame, in order
encapsulate(frames) == [encapsulated |-> TRUE, fragments |-> frames]

\* pathlib: the path a / b
JoinPath(a, b) == IF b # <<>> /\ Head(b) = "/" THEN b ELSE a \o b

\* names of the entries of the input directory
Names == <<"a.dcm", "b.dcm", "c.dcm", "d.dcm">>

\* in_dir.iterdir(): the k-th entry, in_dir joined with its name
IterDir(in_dir, k) == in_dir \o <<Names[k]>>

\* the files that exist are the entries of the input directory
Exists(p) == \E k \in 1..Len(files) : p = args.input \o <<Names[k]>>

\* first frame of a video, the array itself otherwise: what show_image and
\* save_jpg turn into an RGB picture
Picture(a) == IF Len(a.shape) = 4 THEN GetFrame(a, 0) ELSE a

\* the tokens that end the batch
QuitTokens ==
    {<<"q">>, <<"q", "u", "i", "t">>, <<"e">>, <<"e", "x", "i", "t">>}

\* the comparison without lower(): command.strip() in [...]
IsQuit_nolower(cmd) == Strip(cmd) \in QuitTokens

\* command.strip().lower() in ["q", "quit", "e", "exit"]
IsQuit(cmd) == Lower(Strip(cmd)) \in QuitTokens

\* texts entered at the display prompt
QuitInputs ==
    {<<"Q">>, <<" ", "q", "u", "i", "t", " ">>, <<"E", "x", "i", "t">>, <<"e">>}
OtherInputs == {<<>>, <<"q", "q">>}
Commands == QuitInputs \cup OtherInputs

\* kinds of entries: a still image, a video, a dataset without pixel data
Kinds == {"image", "video", "nopixel"}

\* shapes of the pixel arrays of the entries: two rows of three pixels, and
\* two such frames
FileImageShape == <<2, 3, Channels>>
FileVideoShape == <<2, 2, 3, Channels>>

Decoded(kind) ==
    IF kind = "video" THEN NewArray(FileVideoShape)
    ELSE NewArray(FileImageShape)

\* values given on the command line
InputArgs == {<<>>, <<"/", "in">>, <<"in">>}
SourceArgs == {CommaList(<<2, 0, 1, 2>>), CommaList(<<3, 0, 1, 2>>)}
DestinationArg == CommaList(<<0, 0>>)
Source2Arg == CommaList(<<1, 1, 2, 1>>)
Destination2Arg == CommaList(<<0, 1>>)
RectArg == CommaList(<<0, 0, 2, 1>>)
ColorArg == CommaList(<<23, 34, 61>>)
Rect2Arg == CommaList(<<1, 0, 1, 2>>)
Color2Arg == CommaList(<<0, 255, 7>>)

Absent == [exists |-> FALSE, content |-> <<>>]
FileOf(c) == [exists |-> TRUE, content |-> c]

TransformIdle ==
    /\ func = "none"
    /\ array = None
    /\ before = None
    /\ rectangle = <<>>
    /\ color = <<>>
    /\ source = <<>>
    /\ destination = <<>>
    /\ given = <<>>
    /\ outcome = "pending"

Init ==
    /\ TransformIdle
    /\ args \in [input : InputArgs, output : BOOLEAN, show : BOOLEAN,
                 institution : BOOLEAN, jpg : BOOLEAN,
                 transfer : BOOLEAN, source : SourceArgs,
                 destination : {DestinationArg},
                 transfer2 : BOOLEAN, source2 : {Source2Arg},
                 destination2 : {Destination2Arg},
                 fill : BOOLEAN, color : {ColorArg}, rect : {RectArg},
                 fill2 : BOOLEAN, color2 : {Color2Arg}, rect2 : {Rect2Arg}]
    /\ files \in [1..NumFiles -> Kinds]
    /\ pc = "start"
    /\ idx = 0
    /\ image = None
    /\ dataset = [InstitutionName |-> "original", PixelData |-> <<>>]
    /\ events = [k \in 1..NumFiles |-> <<>>]
    /\ shown = [k \in 1..NumFiles |-> None]
    /\ jpgs = [k \in 1..NumFiles |-> Absent]
    /\ written = [k \in 1..NumFiles |-> Absent]
    /\ out_dir_exists = FALSE
    /\ command = <<>>
    /\ ret = "running"

Log(e) == events' = [events EXCEPT ![idx] = Append(@, e)]

Raise(e) == pc' = "raised" /\ ret' = e

Return(v) == pc' = "done" /\ ret' = v

\* a missing output directory treated like a missing input directory
Start_needs_output ==
    /\ pc = "start"
    /\ IF args.input = <<>> \/ ~args.output
       THEN Return("False") /\ idx' = idx
       ELSE pc' = "read" /\ idx' = 1 /\ ret' = ret
    /\ UNCHANGED <<args, files, image, dataset, events, shown, jpgs, written,
                   out_dir_exists, command>>
    /\ UNCHANGED tvars

\* lines 258-268: no input directory ends the run with False; no output
\* directory only prints
Start ==
    /\ pc = "start"
    /\ IF args.input = <<>>
       THEN Return("False") /\ idx' = idx
       ELSE pc' = "read" /\ idx' = 1 /\ ret' = ret
    /\ UNCHANGED <<args, files, image, dataset, events, shown, jpgs, written,
                   out_dir_exists, command>>
    /\ UNCHANGED tvars

\* an entry without pixel data ends the run ("return False" for "continue")
ReadFile_stop ==
    /\ pc = "read"
    /\ idx <= Len(files)
    /\ IF ~Exists(JoinPath(args.input, IterDir(args.input, idx)))
       THEN /\ Raise("FileNotFoundError")
            /\ UNCHANGED <<idx, image, dataset, events>>
       ELSE /\ dataset' =
                 [InstitutionName |-> "original",
                  PixelData |-> IF files[idx] = "nopixel" THEN <<>>
                                ELSE tobytes(Decoded(files[idx]))]
            /\ IF files[idx] = "nopixel"
               THEN /\ image' = None
                    /\ Log("skip")
                    /\ idx' = idx
                    /\ Return("False")
               ELSE /\ image' = Decoded(files[idx])
                    /\ Log("read")
                    /\ idx' = idx
                    /\ pc' = "transfer"
                    /\ ret' = ret
    /\ UNCHANGED <<args, files, shown, jpgs, written, out_dir_exists, command>>
    /\ UNCHANGED tvars

\* lines 269-279: the next entry is read; get_image gives None when the
\* dataset has no pixel data (the AttributeError is caught by debug_verbose)
\* and the entry is skipped
ReadFile ==
    /\ pc = "read"
    /\ idx <= Len(files)
    /\ IF ~Exists(JoinPath(args.input, IterDir(args.input, idx)))
       THEN /\ Raise("FileNotFoundError")
            /\ UNCHANGED <<idx, image, dataset, events>>
       ELSE /\ dataset' =
                 [InstitutionName |-> "original",
                  PixelData |-> IF files[idx] = "nopixel" THEN <<>>
                                ELSE tobytes(Decoded(files[idx]))]
            /\ ret' = ret
            /\ IF files[idx] = "nopixel"
               THEN /\ image' = None
                    /\ Log("skip")
                    /\ idx' = idx + 1
                    /\ pc' = "read"
               ELSE /\ image' = Decoded(files[idx])
                    /\ Log("read")
                    /\ idx' = idx
                    /\ pc' = "transfer"
    /\ UNCHANGED <<args, files, shown, jpgs, written, out_dir_exists, command>>
    /\ UNCHANGED tvars

\* line 323: the directory is exhausted
ReturnTrue ==
    /\ pc = "read"
    /\ idx > Len(files)
    /\ Return("True")
    /\ UNCHANGED <<args, files, idx, image, dataset, events, shown, jpgs,
                   written, out_dir_exists, command>>
    /\ UNCHANGED tvars

\* one "if args.<flag>: image = <transform>(...)" statement of main
Edit(here, flag, name, r, next) ==
    /\ pc = here
    /\ IF ~flag
       THEN pc' = next /\ UNCHANGED <<image, events, ret>>
       ELSE IF r.exc # "none"
       THEN Raise(r.exc) /\ UNCHANGED <<image, events>>
       ELSE pc' = next /\ image' = r.array /\ Log(name) /\ ret' = ret
    /\ UNCHANGED <<args, files, idx, dataset, shown, jpgs, written,
                   out_dir_exists, command>>
    /\ UNCHANGED tvars

\* lines 280-283
Transfer ==
    Edit("transfer", args.transfer, "transfer",
         transfer_image(image, args.destination, args.source), "transfer2")

\* lines 284-287
Transfer2 ==
    Edit("transfer2", args.transfer2, "transfer2",
         transfer_image(image, args.destination2, args.source2), "fill")

\* the first fill done with the second fill's rectangle and color
Fill_rect2 ==
    Edit("fill", args.fill, "fill",
         fill_image(image, args.rect2, args.color2), "fill2")

\* lines 288-289
Fill ==
    Edit("fill", args.fill, "fill",
         fill_image(image, args.rect, args.color), "fill2")

\* lines 290-291
Fill2 ==
    Edit("fill2", args.fill2, "fill2",
         fill_image(image, args.rect2, args.color2), "show")

\* lines 293-297: the picture is displayed, the text entered is read, a
\* quit token ends the run with False
Show ==
    /\ pc = "show"
    /\ IF ~args.show
       THEN /\ pc' = "institution"
            /\ UNCHANGED <<shown, command, events, ret>>
       ELSE \E cmd \in Commands :
            /\ shown' = [shown EXCEPT ![idx] = Picture(image)]
            /\ command' = cmd
            /\ Log("show")
            /\ IF IsQuit(cmd)
               THEN Return("False")
               ELSE pc' = "institution" /\ ret' = ret
    /\ UNCHANGED <<args, files, idx, image, dataset, jpgs, written,
                   out_dir_exists>>
    /\ UNCHANGED tvars

\* lines 299-300
Institution ==
    /\ pc = "institution"
    /\ IF args.institution
       THEN /\ dataset' = [dataset EXCEPT !.InstitutionName = "given"]
            /\ Log("institution")
       ELSE UNCHANGED <<dataset, events>>
    /\ pc' = "jpg"
    /\ UNCHANGED <<args, files, idx, image, shown, jpgs, written,
                   out_dir_exists, command, ret>>
    /\ UNCHANGED tvars

\* the export without the test of the output directory: "if args.jpg:"
ExportJpg_noguard ==
    /\ pc = "jpg"
    /\ IF args.jpg
       THEN /\ out_dir_exists' = TRUE
            /\ jpgs' = [jpgs EXCEPT ![idx] = FileOf(Picture(image))]
            /\ Log("jpg")
       ELSE UNCHANGED <<out_dir_exists, jpgs, events>>
    /\ pc' = "save"
    /\ UNCHANGED <<args, files, idx, image, dataset, shown, written,
                   command, ret>>
    /\ UNCHANGED tvars

\* lines 302-308: the jpg export, the output directory made when missing
ExportJpg ==
    /\ pc = "jpg"
    /\ IF args.jpg /\ args.output
       THEN /\ out_dir_exists' = TRUE
            /\ jpgs' = [jpgs EXCEPT ![idx] = FileOf(Picture(image))]
            /\ Log("jpg")
       ELSE UNCHANGED <<out_dir_exists, jpgs, events>>
    /\ pc' = "save"
    /\ UNCHANGED <<args, files, idx, image, dataset, shown, written,
                   command, ret>>
    /\ UNCHANGED tvars

\* the frames of a video, in order, as bytes
FrameBytes(a) == [f \in 1..a.shape[1] |-> tobytes(GetFrame(a, f - 1))]

\* lines 310-322: the pixel data is set from the image and the dataset is
\* saved under the entry's name; then the loop goes to the next entry
SaveDicom ==
    /\ pc = "save"
    /\ IF args.output
       THEN /\ out_dir_exists' = TRUE
            /\ dataset' =
                 [dataset EXCEPT !.PixelData =
                    IF Len(image.shape) = 4
                    THEN encapsulate(FrameBytes(image))
                    ELSE tobytes(image)]
            /\ written' = [written EXCEPT ![idx] = FileOf(dataset')]
            /\ Log("save")
       ELSE UNCHANGED <<out_dir_exists, dataset, written, events>>
    /\ idx' = idx + 1
    /\ pc' = "read"
    /\ UNCHANGED <<args, files, image, shown, jpgs, command, ret>>
    /\ UNCHANGED tvars

Next ==
    \/ Start
    \/ ReadFile
    \/ ReturnTrue
    \/ Transfer
    \/ Transfer2
    \/ Fill
    \/ Fill2
    \/ Show
    \/ Institution
    \/ ExportJpg
    \/ SaveDicom

Spec == Init /\ [][Next]_vars

(* -------------------- properties of the batch driver ------------------- *)
Last(s) == s[Len(s)]

HasPixels(k) == files[k] # "nopixel"

EditNames == <<"transfer", "transfer2", "fill", "fill2">>

IsEdit(e) == \E n \in 1..Len(EditNames) : EditNames[n] = e

\* the edits done for entry k, in the order they were done
EditsOf(k) == SelectSeq(events[k], IsEdit)

EditEnabled(e) ==
    \/ e = "transfer" /\ args.transfer
    \/ e = "transfer2" /\ args.transfer2
    \/ e = "fill" /\ args.fill
    \/ e = "fill2" /\ args.fill2

\* the enabled edit rules, in the order transfer, transfer2, fill, fill2
EnabledEdits == SelectSeq(EditNames, EditEnabled)

\* the buffer of an entry of the given kind after the enabled rules, each
\* applied to what the one before it left
PlanResult(kind) ==
    LET a0 == Decoded(kind)
        a1 == IF args.transfer
              THEN transfer_image(a0, args.destination, args.source).array
              ELSE a0
        a2 == IF args.transfer2
              THEN transfer_image(a1, args.destination2, args.source2).array
              ELSE a1
        a3 == IF args.fill THEN fill_image(a2, args.rect, args.color).array
              ELSE a2
    IN  IF args.fill2 THEN fill_image(a3, args.rect2, args.color2).array
        ELSE a3

\* the pixel data main stores for a buffer
PixelDataOf(a) ==
    IF Len(a.shape) = 4 THEN encapsulate(FrameBytes(a)) ELSE tobytes(a)

\* a quit text was entered at the display of entry k
QuitAt(k) ==
    /\ idx = k
    /\ events[k] # <<>>
    /\ Last(events[k]) = "show"
    /\ command \in QuitInputs

QuitEntered == \E k \in 1..NumFiles : QuitAt(k)

\* entry k has gone through its edits and its display
PastDisplay(k) == k < idx \/ (k = idx /\ pc \in {"institution", "jpg", "save"})

\* C6: with display and an output directory, a quit token (q, quit, e,
\* exit, any case, surrounded by blanks or not) entered at the display of
\* entry k ends main with False; the dicom output of every earlier entry
\* that has pixel data, and its jpg export when --jpg is set, is written;
\* nothing is written for entry k or a later one.
C6_QuitAbortsBatch ==
    \A k \in 1..NumFiles :
        (args.show /\ args.output /\ QuitAt(k))
        => /\ pc = "done"
           /\ ret = "False"
           /\ \A j \in 1..NumFiles :
                IF j < k
                THEN HasPixels(j)
                     => /\ written[j].exists
                        /\ args.jpg => jpgs[j].exists
                ELSE ~written[j].exists /\ ~jpgs[j].exists

C6_Witness ==
    /\ args.show /\ args.output /\ args.jpg
    /\ QuitAt(2)
    /\ command = <<"Q">>
    /\ ret = "False"
    /\ written[1].exists /\ jpgs[1].exists
    /\ ~written[2].exists /\ ~jpgs[2].exists

\* C7: without an output directory nothing is ever written or exported and
\* no directory is made, whatever the other flags; every entry with pixel
\* data that main gets through has had every enabled edit and, with --show,
\* its display.
C7_NoOutputDirectory ==
    (pc # "idle" /\ ~args.output)
    => /\ ~out_dir_exists
       /\ \A k \in 1..NumFiles :
            /\ ~written[k].exists
            /\ ~jpgs[k].exists
            /\ (PastDisplay(k) /\ HasPixels(k))
               => /\ EditsOf(k) = EnabledEdits
                  /\ args.show
                     => (shown[k] # None /\ \E n \in 1..Len(events[k]) :
                                                events[k][n] = "show")

C7_Witness ==
    /\ ~args.output /\ args.jpg /\ args.show /\ args.fill /\ args.transfer
    /\ pc = "done" /\ ret = "True"
    /\ \A k \in 1..NumFiles :
          HasPixels(k) /\ EditsOf(k) = <<"transfer", "fill">> /\ shown[k] # None

\* what is in the output directory for entry j when main has gone through it
OutputsAsAlone(j) ==
    LET result == PlanResult(files[j])
    IN  /\ written[j] =
             IF args.output
             THEN FileOf([InstitutionName |->
                             IF args.institution THEN "given" ELSE "original",
                          PixelData |-> PixelDataOf(result)])
             ELSE Absent
        /\ jpgs[j] =
             IF args.output /\ args.jpg
             THEN FileOf(Picture(result)) ELSE Absent

C8_State ==
    \A k \in 1..NumFiles :
        (pc # "idle" /\ files[k] = "nopixel")
        => /\ events[k] \in {<<>>, <<"skip">>}
           /\ shown[k] = None
           /\ ~written[k].exists
           /\ ~jpgs[k].exists
           /\ events[k] = <<"skip">>
              => /\ idx > k
                 /\ \A j \in (k + 1)..NumFiles :
                       (j < idx /\ HasPixels(j)) => OutputsAsAlone(j)
                 /\ (pc = "done" /\ ~QuitEntered) => ret = "True"

C8_Step ==
    (pc = "read" /\ idx <= Len(files) /\ pc' # "raised"
        /\ files[idx] = "nopixel")
    => /\ pc' = "read"
       /\ idx' = idx + 1
       /\ ret' = "running"
       /\ image' = None
       /\ UNCHANGED <<shown, jpgs, written, out_dir_exists>>

\* C8: an entry whose decoding yields no pixel data is skipped: nothing is
\* edited, displayed, exported or written for it, the loop goes on to the
\* next entry with the run still going, every later entry gets the outputs
\* it gets on its own, and a run that ends without a quit returns True.
C8_SkipAndContinue == []C8_State /\ [][C8_Step]_vars

C8_Witness ==
    /\ files[1] = "nopixel" /\ HasPixels(2)
    /\ events[1] = <<"skip">>
    /\ args.output /\ args.fill
    /\ pc = "done" /\ ret = "True"
    /\ written[2].exists /\ ~written[1].exists

\* C9: main returns False exactly when no input directory is given, and
\* then before any entry is read, or when a quit token is entered at a
\* display; every other run that returns, returns True.
C9_ReturnValue ==
    pc = "done"
    => /\ ret \in {"True", "False"}
       /\ ret = "False" <=> (args.input = <<>> \/ QuitEntered)
       /\ args.input = <<>>
          => /\ idx = 0
             /\ \A k \in 1..NumFiles : events[k] = <<>>

C9_Witness ==
    /\ pc = "done" /\ ret = "False"
    /\ args.input = <<>>
    /\ args.output /\ args.show
    /\ \A k \in 1..NumFiles : events[k] = <<>> /\ HasPixels(k)

\* position of an event in the order of main's statements
Rank(e) ==
    CASE e = "read" -> 0 [] e = "skip" -> 0
      [] e = "transfer" -> 1 [] e = "transfer2" -> 2
      [] e = "fill" -> 3 [] e = "fill2" -> 4
      [] e = "show" -> 5 [] e = "institution" -> 6
      [] e = "jpg" -> 7 [] e = "save" -> 8

\* the outputs of entry k are looked at when they are made: at its display,
\* export and save, and at the loop's return to the next entry
OutputsMade(k) ==
    \/ k = idx /\ pc \in {"show", "institution", "jpg", "save", "done"}
    \/ k = idx - 1 /\ pc = "read"

C10_State ==
    \A k \in 1..NumFiles :
        (pc # "idle" /\ HasPixels(k))
        => /\ \A m \in 1..Len(events[k]), n \in 1..Len(events[k]) :
                m < n => Rank(events[k][m]) < Rank(events[k][n])
           /\ \A n \in 1..Len(events[k]) :
                IsEdit(events[k][n]) => EditEnabled(events[k][n])
           /\ (\E n \in 1..Len(events[k]) : Rank(events[k][n]) >= 5)
              => EditsOf(k) = EnabledEdits
           /\ OutputsMade(k)
              => LET result == PlanResult(files[k])
                 IN  /\ (k = idx /\ pc \in {"show", "institution", "jpg", "save"})
                        => image = result
                     /\ shown[k] # None => shown[k] = Picture(result)
                     /\ jpgs[k].exists => jpgs[k].content = Picture(result)
                     /\ written[k].exists
                        => written[k].content.PixelData = PixelDataOf(result)

\* what was displayed, exported and written for an entry other than the
\* current one stays as it is
C10_Step ==
    \A k \in 1..NumFiles :
        k # idx
        => /\ shown'[k] = shown[k]
           /\ jpgs'[k] = jpgs[k]
           /\ written'[k] = written[k]

\* C10: for every entry with pixel data the enabled edit rules are applied
\* in the order transfer, transfer2, fill, fill2, each at most once and only
\* when its flag is set, each to the buffer the one before it left, and all
\* of them before the entry's display, jpg export and dicom write, which
\* show, export and write the edited buffer.
C10_EditOrder == []C10_State /\ [][C10_Step]_vars

C10_Witness ==
    /\ args.transfer /\ args.transfer2 /\ args.fill /\ args.fill2
    /\ args.show /\ args.jpg /\ args.output
    /\ pc = "done" /\ ret = "True"
    /\ files[1] = "image" /\ files[2] = "video"
    /\ events[1] = <<"read", "transfer", "transfer2", "fill", "fill2",
                     "show", "jpg", "save">>
    /\ EditsOf(2) = EditNames
    /\ written[1].exists /\ written[2].exists

====
